---- MODULE Spec2Model ----
(***************************************************************************)
(* Model of the album persistence layer (src/python/album-db/database.py): *)
(* the collection clients (insert + index provisioning), the               *)
(* authentication collection and the cluster connection configuration.     *)
(*                                                                         *)
(* One collection is modelled at a time; its kind is fixed by Init.  The   *)
(* callers are concurrent users of one client object bound to that         *)
(* collection.  Every call to the document store (find_one, insert_one,    *)
(* index_information, create_index) is one atomic step; the steps of       *)
(* different callers interleave freely.                                    *)
(***************************************************************************)
EXTENDS Integers, Sequences, FiniteSets, TLC

VARIABLES
    kind,       \* which collection client is under study
    docs,       \* the documents stored in the collection, in natural order
    indexes,    \* the store's index catalogue of the collection
    cs,         \* per caller: position in its call in flight, arguments, locals
    ret,        \* the call that returned last: its arguments, locals and outcome
    reliable,   \* whether the store answers every create-index request
    added,      \* history: the (userid, password) pairs add_user returned for
    cfg_path,   \* ClusterClient.cfg_path
    file,       \* the file named cfg_path: the persisted config
    conn,       \* ClusterClient.conn
    database,   \* DatabaseClient.database of the client built last
    lastSet,    \* history: the argument of the most recent set_connection
    cret,       \* the ClusterClient call that returned last and its outcome
    perm        \* a user's permission value in one channel or profile

collVars == <<kind, docs, indexes, cs, ret, reliable, added>>
clusterVars == <<cfg_path, file, conn, database, lastSet, cret>>
auxVars == <<perm>>
vars == <<collVars, clusterVars, auxVars>>

(***************************************************************************)
(* Bounds of the model.                                                    *)
(***************************************************************************)
MaxDocs == 2

\* The callers; the first two use every operation, all of them take part in
\* the concurrent ensure-indices scenario.
Callers == {"c1", "c2", "c3"}
Users == {"c1", "c2"}
Kinds == {"Auth", "Media", "Post", "Channel", "Profile", "Relation", "Album"}
Userids == {"u1", "u2"}
Titles == {"t1", "t2"}
Passwords == {"p1", "p2"}

(***************************************************************************)
(* Password values.  A password field is absent, a raw password, or the    *)
(* string crypto_pwhash_str produced; the salt and the cost parameters in  *)
(* that string are left out, no operation reads them.                      *)
(***************************************************************************)
NoPassword == [form |-> "none", text |-> ""]
RawPassword(p) == [form |-> "raw", text |-> p]

crypto_pwhash_str(password) == [form |-> "argon2id", text |-> password]

crypto_pwhash_str_verify(pstr, password) ==
    pstr.form = "argon2id" /\ pstr.text = password

(***************************************************************************)
(* Index declarations.  A key list is a sequence of <<field, direction>>   *)
(* pairs, direction "1" (ASCENDING) or "text" (TEXT).                      *)
(***************************************************************************)
RECURSIVE GenIndexName(_)
GenIndexName(keys) ==
    IF keys = <<>> THEN ""
    ELSE LET k == Head(keys)
             rest == GenIndexName(Tail(keys))
         IN k[1] \o "_" \o k[2] \o (IF rest = "" THEN "" ELSE "_" \o rest)

IndexSpec(keys, unique) ==
    [name |-> GenIndexName(keys), keys |-> keys, unique |-> unique]

IdIndex == [name |-> "_id_", keys |-> <<<<"_id", "1">>>>, unique |-> TRUE]

CheckedNameAsStored(k) ==
    CASE k = "Auth" -> "userid_1"
      [] k = "Media" -> "credits.userid_1_title_1_type_1_tags.value_1"
      [] k = "Post" -> "userid_1_title_1_media.context_1"
      [] k = "Channel" -> "userid_1"
      [] k = "Profile" -> "userid_1_title_1"
      [] k = "Relation" -> "userid_1"
      [] k = "Album" -> "title_1"

\* The name each client looks up in index_information() before creating.
CheckedName(k) ==
    CASE k = "Auth" -> "userid"
      [] k = "Media" -> "credits"
      [] k = "Post" -> "userid"
      [] k = "Channel" -> "userid"
      [] k = "Profile" -> "userid"
      [] k = "Relation" -> "userid"
      [] k = "Album" -> "title"

CreateRequestsFirstOnly(k) ==
    CASE k = "Auth" -> <<IndexSpec(<<<<"userid", "1">>>>, TRUE)>>
      [] k = "Media" ->
            <<IndexSpec(<<<<"credits.userid", "1">>, <<"title", "1">>,
                          <<"type", "1">>, <<"tags.value", "1">>>>, FALSE)>>
      [] k = "Post" ->
            <<IndexSpec(<<<<"userid", "1">>, <<"title", "1">>,
                          <<"media.context", "1">>>>, FALSE)>>
      [] k = "Channel" -> <<IndexSpec(<<<<"userid", "1">>>>, FALSE)>>
      [] k = "Profile" ->
            <<IndexSpec(<<<<"userid", "1">>, <<"title", "1">>>>, TRUE)>>
      [] k = "Relation" -> <<IndexSpec(<<<<"userid", "1">>>>, TRUE)>>
      [] k = "Album" -> <<IndexSpec(<<<<"title", "1">>>>, TRUE)>>

\* The create_index requests each client's _create_indices sends, in order.
CreateRequests(k) ==
    CASE k = "Auth" -> <<IndexSpec(<<<<"userid", "1">>>>, TRUE)>>
      [] k = "Media" ->
            <<IndexSpec(<<<<"credits.userid", "1">>, <<"title", "1">>,
                          <<"type", "1">>, <<"tags.value", "1">>>>, FALSE)>>
      [] k = "Post" ->
            <<IndexSpec(<<<<"userid", "1">>, <<"title", "1">>,
                          <<"media.context", "1">>>>, FALSE),
              IndexSpec(<<<<"userid", "text">>, <<"title", "text">>,
                          <<"media.context", "text">>>>, FALSE)>>
      [] k = "Channel" -> <<IndexSpec(<<<<"userid", "1">>>>, FALSE)>>
      [] k = "Profile" ->
            <<IndexSpec(<<<<"userid", "1">>, <<"title", "1">>>>, TRUE),
              IndexSpec(<<<<"userid", "text">>, <<"title", "text">>>>, FALSE)>>
      [] k = "Relation" -> <<IndexSpec(<<<<"userid", "1">>>>, TRUE)>>
      [] k = "Album" -> <<IndexSpec(<<<<"title", "1">>>>, TRUE)>>

(***************************************************************************)
(* The document store (pymongo collection) as the clients use it.          *)
(***************************************************************************)
KeyOf(doc, keys) == [i \in 1..Len(keys) |-> doc[keys[i][1]]]

\* find_one({"userid": userid}): the first match in natural order, or None.
\* Fields: ref is the collection name of the DocumentReference the document
\* carries ("" when it carries none), type its media type ("" when it is not
\* a media document), data the encoded payload the older draft's add_media
\* attaches, authrecs the login history of an AuthDocument.
None == [id |-> 0, userid |-> "", title |-> "", password |-> NoPassword,
         ref |-> "", type |-> "", data |-> "", authrecs |-> <<>>]

find_one(d, userid) ==
    IF \E i \in 1..Len(d) : d[i].userid = userid
    THEN d[CHOOSE i \in 1..Len(d) :
             /\ d[i].userid = userid
             /\ \A j \in 1..(i - 1) : d[j].userid # userid]
    ELSE None

\* index_information(): the catalogue keyed by index name.
index_information(idx) == {idx[i].name : i \in 1..Len(idx)}

\* insert_one is refused (DuplicateKeyError) by an existing unique index.
InsertAccepted(idx, d, doc) ==
    \A i \in 1..Len(idx) :
        (idx[i].unique /\ idx[i].name # "_id_") =>
            \A j \in 1..Len(d) : KeyOf(d[j], idx[i].keys) # KeyOf(doc, idx[i].keys)

\* The collection (and its _id_ index) comes to exist with the first write.
WithCollection(idx) == IF idx = <<>> THEN <<IdIndex>> ELSE idx

\* create_index: "ok" (created, or already there with the same definition),
\* or the error the store answers with.
create_index_result(idx, d, spec) ==
    IF \E i \in 1..Len(idx) : idx[i].name = spec.name
    THEN IF \E i \in 1..Len(idx) : idx[i] = spec
         THEN "ok" ELSE "OperationFailure"
    ELSE IF spec.unique /\ \E i, j \in 1..Len(d) :
                i # j /\ KeyOf(d[i], spec.keys) = KeyOf(d[j], spec.keys)
         THEN "DuplicateKeyError"
         ELSE "ok"

create_index_catalogue(idx, d, spec) ==
    IF create_index_result(idx, d, spec) = "ok"
       /\ ~ \E i \in 1..Len(idx) : idx[i].name = spec.name
    THEN Append(WithCollection(idx), spec)
    ELSE idx

(***************************************************************************)
(* ClusterClient: the connection secret and the config store.              *)
(***************************************************************************)
ConnStrings == {"mongodb://a", "mongodb://b"}
SecretKeys == {"k1", "k2"}
Nonces == {"n1", "n2"}
DatabaseNames == {"album", "test"}

\* pysodium.crypto_secretbox: the box opens under its own key and nonce only,
\* and only while its authentication tag is intact.
crypto_secretbox(msg, nonce, key) ==
    [msg |-> msg, nonce |-> nonce, key |-> key, mac |-> TRUE]

crypto_secretbox_open(c, nonce, key) ==
    IF c.mac /\ c.nonce = nonce /\ c.key = key THEN c.msg ELSE "ValueError"

b64encode(x) == <<"b64", x>>
b64decode(e) == e[2]

\* A config entry under K_CFG_CONN.  type: what the three values are in
\* Python, "bytes" (b64encode's output) or "str" (read from JSON text).
NoBox == [msg |-> "", nonce |-> "", key |-> "", mac |-> FALSE]
NoEntry == [present |-> FALSE, type |-> "", key |-> b64encode(""),
            nonce |-> b64encode(""), value |-> b64encode(NoBox)]

ConnectionConfig(key, nonce, value) ==
    [present |-> TRUE, type |-> "bytes", key |-> key, nonce |-> nonce,
     value |-> value]

\* The config object: the entry under "mdb_connection" and one unrelated
\* key, "other" ("" when absent).
EmptyConfig == [mdb_connection |-> NoEntry, other |-> ""]

\* Text: JSON text of a config object, or text that is not JSON.
PlainText(name) == [json |-> FALSE, name |-> name, value |-> EmptyConfig]
JsonText(cfg) == [json |-> TRUE, name |-> "", value |-> cfg]

\* json.dumps raises TypeError on bytes.
JsonSerializable(cfg) == cfg.mdb_connection.type # "bytes"

\* A secret as it stands in JSON text: three base64 strings.
StoredSecret(s, nonce, key, intact) ==
    [present |-> TRUE, type |-> "str", key |-> b64encode(key),
     nonce |-> b64encode(nonce),
     value |-> b64encode([crypto_secretbox(s, nonce, key) EXCEPT !.mac = intact])]

\* The values of cfg_path: the default file name, and strings that happen to
\* be JSON text themselves.
DefaultPath == PlainText("mdb_cluster.json")
CfgPaths ==
    {DefaultPath,
     JsonText(EmptyConfig),
     JsonText([EmptyConfig EXCEPT !.other = "v"]),
     JsonText([mdb_connection |-> StoredSecret("mongodb://a", "n1", "k1", TRUE),
               other |-> "v"]),
     JsonText([mdb_connection |-> StoredSecret("mongodb://b", "n2", "k2", TRUE),
               other |-> ""]),
     JsonText([mdb_connection |-> StoredSecret("mongodb://a", "n1", "k1", FALSE),
               other |-> ""])}

\* The file named cfg_path: absent, or holding text.
FileAbsent == [exists |-> FALSE, text |-> PlainText("")]
FileWith(text) == [exists |-> TRUE, text |-> text]

NoConn == [open |-> FALSE, uri |-> ""]
MongoClient(conn_str) == [open |-> TRUE, uri |-> conn_str]
NoDatabase == [conn |-> NoConn, name |-> ""]
NoClusterReturn == [op |-> "none", res |-> "none"]

(***************************************************************************)
(* Callers.                                                                *)
(***************************************************************************)
\* pc: where the call stands; doc, pw: its arguments (carried: the document
\* came with a password field); info, sent: the locals of _create_indices;
\* obj: the payload given to add_media or encode; ip: the address given to
\* log_authentication.
Idle == [pc |-> "idle", op |-> "none", doc |-> None, pw |-> "",
         carried |-> FALSE, info |-> {}, sent |-> 0, obj |-> "", ip |-> ""]

NoReturn == [op |-> "none", userid |-> "", pw |-> "", stored |-> FALSE,
             res |-> "none", type |-> "", obj |-> "", ip |-> ""]

\* Documents a caller may pass to the add_* operation of each client: the
\* fields the collection's indexes and lookups read.
DocInputs(k) ==
    CASE k = "Auth" ->
            {[None EXCEPT !.userid = u, !.password = p] :
                u \in Userids, p \in {NoPassword} \cup {RawPassword(q) : q \in Passwords}}
      [] k = "Media" ->
            {[None EXCEPT !.title = t, !.type = "TEXT"] : t \in Titles}
      [] k = "Album" ->
            {[None EXCEPT !.title = t] : t \in Titles}
      [] k \in {"Post", "Channel", "Relation"} ->
            {[None EXCEPT !.userid = u] : u \in Userids}
      [] k = "Profile" ->
            {[None EXCEPT !.userid = u, !.title = t] :
                u \in Userids, t \in Titles}

\* Nobody has been given a permission yet.
NoPermission == [vocabulary |-> "none", flags |-> {}, value |-> 0,
                 checked |-> "none", passed |-> FALSE]

\* Inserts still to come from calls in flight.
PendingInserts == Cardinality({c \in Callers : cs[c].pc = "insert_one"})

Init ==
    /\ kind \in Kinds
    /\ docs = <<>>
    /\ indexes = <<>>
    /\ cs = [c \in Callers |-> Idle]
    /\ ret = NoReturn
    /\ reliable = FALSE
    /\ added = {}
    /\ cfg_path = DefaultPath
    /\ file = FileAbsent
    /\ conn = NoConn
    /\ database = NoDatabase
    /\ lastSet = ""
    /\ cret = NoClusterReturn
    /\ perm = NoPermission


(***************************************************************************)
(* AuthCollectionClient.                                                   *)
(***************************************************************************)
has_user_never(d, userid) == FALSE

has_user(d, userid) == find_one(d, userid) # None

hashed_doc_keeping_carried(doc, password) ==
    IF doc.password # NoPassword THEN doc
    ELSE [doc EXCEPT !.password = crypto_pwhash_str(password)]

\* add_user's assignment doc["password"] = crypto_pwhash_str(password, ...).
hashed_doc(doc, password) ==
    [doc EXCEPT !.password = crypto_pwhash_str(password)]

verify_user_result_any_password(d, userid, password) ==
    IF find_one(d, userid) = None THEN "UserNotFound" ELSE "true"

verify_user_result_raising(d, userid, password) ==
    LET doc == find_one(d, userid)
    IN IF doc = None THEN "UserNotFound"
       ELSE IF crypto_pwhash_str_verify(doc.password, password)
            THEN "true" ELSE "ValueError"

\* verify_user's outcome: the raised error or the returned boolean.
verify_user_result(d, userid, password) ==
    LET doc == find_one(d, userid)
    IN IF doc = None THEN "UserNotFound"
       ELSE IF crypto_pwhash_str_verify(doc.password, password)
            THEN "true" ELSE "false"

\* Caller c's call returns (or raises) r: c is idle again, and the call is
\* the one that returned last: its operation, its arguments, whether its
\* document was stored, and the outcome r.
Return(c, rec, r) ==
    /\ cs' = [cs EXCEPT ![c] = Idle]
    /\ ret' = [op |-> rec.op, userid |-> rec.doc.userid, pw |-> rec.pw,
               stored |-> rec.doc.id # 0, res |-> r,
               type |-> rec.doc.type, obj |-> rec.obj, ip |-> rec.ip]

\* add_user(doc, password) up to its call of _insert: the has_user check and,
\* when it passes, the password hash replacing whatever the document carried.
AddUser(c, doc, password) ==
    /\ kind = "Auth"
    /\ cs[c].pc = "idle"
    /\ has_user(docs, doc.userid) \/ Len(docs) + PendingInserts < MaxDocs
    /\ LET call == [Idle EXCEPT !.op = "add_user", !.doc = doc, !.pw = password,
                                 !.carried = doc.password # NoPassword]
       IN IF has_user(docs, doc.userid)
          THEN Return(c, call, "DuplicateUser")
          ELSE /\ cs' = [cs EXCEPT ![c] =
                          [call EXCEPT !.doc = hashed_doc(doc, password),
                                       !.pc = "insert_one"]]
               /\ UNCHANGED ret
    /\ UNCHANGED <<kind, docs, indexes, reliable, added>>
    /\ UNCHANGED <<clusterVars, auxVars>>

\* add_media, add_post, add_channel, add_profile, add_relation, add_album:
\* no validation, straight to _insert.
AddDoc(c, doc) ==
    /\ kind # "Auth"
    /\ cs[c].pc = "idle"
    /\ Len(docs) + PendingInserts < MaxDocs
    /\ cs' = [cs EXCEPT ![c] = [Idle EXCEPT !.op = "add", !.doc = doc,
                                             !.pc = "insert_one"]]
    /\ UNCHANGED <<kind, docs, indexes, ret, reliable, added>>
    /\ UNCHANGED <<clusterVars, auxVars>>

\* verify_user(userid, password): one find_one and a local comparison.
VerifyUser(c, userid, password) ==
    /\ kind = "Auth"
    /\ cs[c].pc = "idle"
    /\ Return(c, [Idle EXCEPT !.op = "verify_user", !.doc.userid = userid,
                              !.pw = password],
              verify_user_result(docs, userid, password))
    /\ UNCHANGED <<kind, docs, indexes, reliable, added>>
    /\ UNCHANGED <<clusterVars, auxVars>>

(***************************************************************************)
(* CollectionClient._insert and the clients' _create_indices.              *)
(***************************************************************************)
\* _insert, first statement: collection.insert_one(doc).
InsertOne(c) ==
    /\ cs[c].pc = "insert_one"
    /\ IF InsertAccepted(indexes, docs, cs[c].doc)
       THEN LET stored == [cs[c].doc EXCEPT !.id = Len(docs) + 1]
            IN /\ docs' = Append(docs, stored)
               /\ indexes' = WithCollection(indexes)
               /\ cs' = [cs EXCEPT ![c].doc = stored, ![c].pc = "index_information"]
               /\ UNCHANGED ret
       ELSE /\ Return(c, cs[c], "DuplicateKeyError")
            /\ UNCHANGED <<docs, indexes>>
    /\ UNCHANGED <<kind, reliable, added>>
    /\ UNCHANGED <<clusterVars, auxVars>>

\* A direct call of _create_indices (the ensure-indices operation).
CreateIndicesCall(c) ==
    /\ cs[c].pc = "idle"
    /\ cs' = [cs EXCEPT ![c] = [Idle EXCEPT !.op = "_create_indices",
                                             !.pc = "index_information"]]
    /\ UNCHANGED <<kind, docs, indexes, ret, reliable, added>>
    /\ UNCHANGED <<clusterVars, auxVars>>

\* What a successful return records: add_user has succeeded for the pair.
AddedAfter(rec) ==
    IF rec.op = "add_user" THEN added \cup {<<rec.doc.userid, rec.pw>>} ELSE added

\* _create_indices, the test: `if "<name>" not in index_information()`.
IndexInformation(c) ==
    /\ cs[c].pc = "index_information"
    /\ LET info == index_information(indexes)
       IN IF CheckedName(kind) \notin info
          THEN /\ cs' = [cs EXCEPT ![c].info = info, ![c].pc = "create_index"]
               /\ UNCHANGED <<ret, added>>
          ELSE /\ Return(c, [cs[c] EXCEPT !.info = info], "ok")
               /\ added' = AddedAfter(cs[c])
    /\ UNCHANGED <<kind, docs, indexes, reliable>>
    /\ UNCHANGED <<clusterVars, auxVars>>

\* _create_indices, the next create_index request; an error propagates to
\* the caller of _create_indices, of _insert and of add_*.
CreateIndex(c) ==
    /\ cs[c].pc = "create_index"
    /\ LET reqs == CreateRequests(kind)
           spec == reqs[cs[c].sent + 1]
           rec == [cs[c] EXCEPT !.sent = @ + 1]
       IN \E fail \in (IF reliable THEN {FALSE} ELSE BOOLEAN) :
            IF fail
            THEN /\ Return(c, rec, "StoreError")
                 /\ UNCHANGED <<indexes, added>>
            ELSE LET r == create_index_result(indexes, docs, spec)
                 IN /\ indexes' = create_index_catalogue(indexes, docs, spec)
                    /\ IF r # "ok"
                       THEN /\ Return(c, rec, r)
                            /\ UNCHANGED added
                       ELSE IF rec.sent = Len(reqs)
                            THEN /\ Return(c, rec, "ok")
                                 /\ added' = AddedAfter(cs[c])
                            ELSE /\ cs' = [cs EXCEPT ![c] = rec]
                                 /\ UNCHANGED <<ret, added>>
    /\ UNCHANGED <<kind, docs, reliable>>
    /\ UNCHANGED <<clusterVars, auxVars>>

Next ==
    \E c \in Users :
        \/ \E doc \in DocInputs("Auth"), p \in Passwords : AddUser(c, doc, p)
        \/ \E doc \in DocInputs(kind) : AddDoc(c, doc)
        \/ \E u \in Userids, p \in Passwords : VerifyUser(c, u, p)
        \/ InsertOne(c)
        \/ CreateIndicesCall(c)
        \/ IndexInformation(c)
        \/ CreateIndex(c)

Spec == Init /\ [][Next]_vars

(***************************************************************************)
(* N callers running the ensure-indices operation on a fresh collection,   *)
(* the store answering every request.                                      *)
(***************************************************************************)
InitEnsure ==
    /\ kind \in Kinds
    /\ docs = <<>>
    /\ indexes = <<>>
    /\ cs = [c \in Callers |-> Idle]
    /\ ret = NoReturn
    /\ reliable = TRUE
    /\ added = {}
    /\ cfg_path = DefaultPath
    /\ file = FileAbsent
    /\ conn = NoConn
    /\ database = NoDatabase
    /\ lastSet = ""
    /\ cret = NoClusterReturn
    /\ perm = NoPermission

NextEnsure ==
    \E c \in Callers :
        \/ CreateIndicesCall(c)
        \/ IndexInformation(c)
        \/ CreateIndex(c)

SpecEnsure == InitEnsure /\ [][NextEnsure]_vars


(***************************************************************************)
(* ClusterClient and DatabaseClient.                                       *)
(***************************************************************************)
\* _read_config: json.loads(self.cfg_path), the path string itself parsed.
read_config_ok == cfg_path.json
read_config == cfg_path.value

\* set_connection(conn_str): a fresh key and nonce, the secret box, then
\* _write_config: read the config, set the entry, open the file for writing
\* (which empties it) and write the JSON text of the config.
SetConnection(conn_str) ==
    /\ \E key \in SecretKeys, nonce \in Nonces :
          LET econn == crypto_secretbox(conn_str, nonce, key)
              conn_cfg == ConnectionConfig(b64encode(key), b64encode(nonce),
                                           b64encode(econn))
              cfg == [read_config EXCEPT !.mdb_connection = conn_cfg]
          IN IF ~read_config_ok
             THEN /\ cret' = [op |-> "set_connection", res |-> "JSONDecodeError"]
                  /\ UNCHANGED file
             ELSE IF ~JsonSerializable(cfg)
                  THEN /\ file' = FileWith(PlainText(""))
                       /\ cret' = [op |-> "set_connection", res |-> "TypeError"]
                  ELSE /\ file' = FileWith(JsonText(cfg))
                       /\ cret' = [op |-> "set_connection", res |-> "ok"]
    /\ lastSet' = conn_str
    /\ UNCHANGED <<cfg_path, conn, database>>
    /\ UNCHANGED <<collVars, auxVars>>

\* connect(): the entry under "mdb_connection" of _read_config(), decoded,
\* opened, and the client built from the plaintext.
Connect ==
    /\ IF ~read_config_ok
       THEN /\ cret' = [op |-> "connect", res |-> "JSONDecodeError"]
            /\ UNCHANGED conn
       ELSE IF ~read_config.mdb_connection.present
            THEN /\ cret' = [op |-> "connect", res |-> "KeyError"]
                 /\ UNCHANGED conn
            ELSE LET conn_cfg == read_config.mdb_connection
                     key == b64decode(conn_cfg.key)
                     nonce == b64decode(conn_cfg.nonce)
                     econn == b64decode(conn_cfg.value)
                     conn_str == crypto_secretbox_open(econn, nonce, key)
                 IN IF conn_str = "ValueError"
                    THEN /\ cret' = [op |-> "connect", res |-> "ValueError"]
                         /\ UNCHANGED conn
                    ELSE /\ conn' = MongoClient(conn_str)
                         /\ cret' = [op |-> "connect", res |-> "ok"]
    /\ UNCHANGED <<cfg_path, file, database, lastSet>>
    /\ UNCHANGED <<collVars, auxVars>>

get_database_unchecked(cn, name) ==
    [ok |-> TRUE, db |-> [conn |-> cn, name |-> name]]

\* get_database(name): self.conn[name], a TypeError while conn is None.
get_database(cn, name) ==
    IF cn.open THEN [ok |-> TRUE, db |-> [conn |-> cn, name |-> name]]
    ELSE [ok |-> FALSE, db |-> NoDatabase]

\* DatabaseClient(cluster, name): self.database = cluster.get_database(name).
GetDatabase(name) ==
    /\ LET got == get_database(conn, name)
       IN IF got.ok
          THEN /\ database' = got.db
               /\ cret' = [op |-> "get_database", res |-> "ok"]
          ELSE /\ cret' = [op |-> "get_database", res |-> "TypeError"]
               /\ UNCHANGED database
    /\ UNCHANGED <<cfg_path, file, conn, lastSet>>
    /\ UNCHANGED <<collVars, auxVars>>

\* A ClusterClient on any cfg_path, the file absent or holding a config
\* that somebody provisioned.
InitCluster ==
    /\ kind = "Auth"
    /\ docs = <<>>
    /\ indexes = <<>>
    /\ cs = [c \in Callers |-> Idle]
    /\ ret = NoReturn
    /\ reliable = FALSE
    /\ added = {}
    /\ cfg_path \in CfgPaths
    /\ file \in {FileAbsent,
                 FileWith(JsonText([mdb_connection |->
                                       StoredSecret("mongodb://b", "n2", "k2", TRUE),
                                    other |-> "v"]))}
    /\ conn = NoConn
    /\ database = NoDatabase
    /\ lastSet = ""
    /\ cret = NoClusterReturn
    /\ perm = NoPermission

NextCluster ==
    \/ \E s \in ConnStrings : SetConnection(s)
    \/ Connect
    \/ \E n \in DatabaseNames : GetDatabase(n)

SpecCluster == InitCluster /\ [][NextCluster]_vars

(***************************************************************************)
(* The claims.                                                             *)
(***************************************************************************)
(* Documents with references, media documents and the login history.      *)
(***************************************************************************)
\* The collection names the clients use by default.
DefaultCollectionNames ==
    {"authentication", "media", "channels", "profiles", "relationship", "album"}

\* DocumentReference.collection is any string: none carried, the name of a
\* collection of the application, some other name.
ReferenceNames == {"", "channels", "elsewhere"}

MediaTypeEnum == {"NONE", "LINK", "TEXT", "IMAGE", "VIDEO", "SOUND"}

\* Payloads: a string, an image array, an array the image encoder gives up on.
Payloads == {"text", "image", "badimage"}

\* encode(type, obj): what it returns ("None", "bytes") or raises.
encode(type, obj) ==
    CASE type = "NONE" -> "None"
      [] type \in {"LINK", "TEXT"} -> "bytes"
      [] type = "IMAGE" ->
            (CASE obj = "image" -> "bytes"
               [] obj = "badimage" -> "ValueError"
               [] OTHER -> "cv2.error")
      [] type \in {"VIDEO", "SOUND"} -> "NotImplementedError"
      [] OTHER -> "ValueError"

\* Documents given to the add_* operations: as DocInputs, with every
\* reference name.
DomainInputs(k) ==
    {[d EXCEPT !.ref = r] : d \in DocInputs(k), r \in ReferenceNames}

\* Media documents of every type.
MediaInputs == {[None EXCEPT !.title = "t1", !.type = t] : t \in MediaTypeEnum}

\* MediaClient.encode(type, obj), called on its own.
Encode(c, type, obj) ==
    /\ kind = "Media"
    /\ cs[c].pc = "idle"
    /\ Return(c, [Idle EXCEPT !.op = "encode", !.doc.type = type, !.obj = obj],
              encode(type, obj))
    /\ UNCHANGED <<kind, docs, indexes, reliable, added>>
    /\ UNCHANGED <<clusterVars, auxVars>>

\* add_media(doc, obj) of the older draft (src/album/backend): the payload is
\* encoded and wrapped in bson.Binary (a TypeError for None) before _insert.
AddMediaDraft(c, doc, obj) ==
    /\ kind = "Media"
    /\ cs[c].pc = "idle"
    /\ Len(docs) + PendingInserts < MaxDocs
    /\ LET call == [Idle EXCEPT !.op = "add_media_draft", !.doc = doc, !.obj = obj]
           e == encode(doc.type, obj)
       IN CASE e = "bytes" ->
                  /\ cs' = [cs EXCEPT ![c] = [call EXCEPT !.doc.data = "bytes",
                                                          !.pc = "insert_one"]]
                  /\ UNCHANGED ret
            [] e = "None" -> Return(c, call, "TypeError")
            [] OTHER -> Return(c, call, e)
    /\ UNCHANGED <<kind, docs, indexes, reliable, added>>
    /\ UNCHANGED <<clusterVars, auxVars>>

\* log_authentication(userid, ip): raise NotImplementedError.
LogAuthentication(c, userid, ip) ==
    /\ kind = "Auth"
    /\ cs[c].pc = "idle"
    /\ Return(c, [Idle EXCEPT !.op = "log_authentication", !.doc.userid = userid,
                              !.ip = ip],
              "NotImplementedError")
    /\ UNCHANGED <<kind, docs, indexes, reliable, added>>
    /\ UNCHANGED <<clusterVars, auxVars>>

Addresses == {"ip1", "ip2"}

\* The clients used with documents of every shape, the store answering
\* every request.
NextDomain ==
    \E c \in Users :
        \/ \E doc \in DocInputs("Auth"), p \in Passwords : AddUser(c, doc, p)
        \/ \E u \in Userids, ip \in Addresses : LogAuthentication(c, u, ip)
        \/ \E doc \in DomainInputs(kind) : AddDoc(c, doc)
        \/ InsertOne(c)
        \/ IndexInformation(c)
        \/ CreateIndex(c)

SpecDomain == InitEnsure /\ [][NextDomain]_vars

\* A media collection and a MediaClient, the store answering every request.
InitMedia ==
    /\ kind = "Media"
    /\ docs = <<>>
    /\ indexes = <<>>
    /\ cs = [c \in Callers |-> Idle]
    /\ ret = NoReturn
    /\ reliable = TRUE
    /\ added = {}
    /\ cfg_path = DefaultPath
    /\ file = FileAbsent
    /\ conn = NoConn
    /\ database = NoDatabase
    /\ lastSet = ""
    /\ cret = NoClusterReturn
    /\ perm = NoPermission

NextMedia ==
    \E c \in Users :
        \/ \E doc \in MediaInputs : AddDoc(c, doc)
        \/ \E doc \in MediaInputs, obj \in Payloads : AddMediaDraft(c, doc, obj)
        \/ \E t \in MediaTypeEnum, obj \in Payloads : Encode(c, t, obj)
        \/ InsertOne(c)
        \/ IndexInformation(c)
        \/ CreateIndex(c)

SpecMedia == InitMedia /\ [][NextMedia]_vars

(***************************************************************************)
(* The permission vocabularies.                                            *)
(***************************************************************************)
\* The members declared after NONE = 0, in declaration order.
ChannelPermissionEnum ==
    <<"READ", "POST", "POST_ADMIN", "BOARD", "BOARD_ADMIN", "TITLE",
      "DESCRIPTION", "TAG", "ADMIN">>

ProfilePermissionEnum ==
    <<"READ", "CHANNEL", "CHANNEL_ADMIN", "TITLE", "DESCRIPTION", "TAG", "ADMIN">>

Vocabularies == {"channel", "profile"}

Members(v) == IF v = "channel" THEN ChannelPermissionEnum ELSE ProfilePermissionEnum

Capabilities(v) == {Members(v)[i] : i \in 1..Len(Members(v))}

Position(v, name) == CHOOSE i \in 1..Len(Members(v)) : Members(v)[i] = name

FlagValueAdminUnset(v, name) ==
    IF name \in {"NONE", "ADMIN"} THEN 0 ELSE 2 ^ (Position(v, name) - 1)

\* The value of a member: NONE = 0, and auto() of an IntFlag gives each
\* following member the next power of two.
FlagValue(v, name) ==
    IF name = "NONE" THEN 0 ELSE 2 ^ (Position(v, name) - 1)

\* IntFlag's & and | on the integer values.
RECURSIVE BitAnd(_, _)
BitAnd(a, b) ==
    IF a = 0 \/ b = 0 THEN 0
    ELSE (IF a % 2 = 1 /\ b % 2 = 1 THEN 1 ELSE 0) + 2 * BitAnd(a \div 2, b \div 2)

RECURSIVE BitOr(_, _)
BitOr(a, b) ==
    IF a = 0 THEN b
    ELSE IF b = 0 THEN a
    ELSE (IF a % 2 = 1 \/ b % 2 = 1 THEN 1 ELSE 0) + 2 * BitOr(a \div 2, b \div 2)

\* The capability check as the specification describes it: ADMIN is tested
\* first, then the bitwise AND of the value with the capability's flag.
HasCapability(v, value, capability) ==
    IF BitAnd(value, FlagValue(v, "ADMIN")) # 0 THEN TRUE
    ELSE BitAnd(value, FlagValue(v, capability)) # 0

\* A flag of the vocabulary is or-ed into the user's permission value.
GrantPermission(v, name) ==
    /\ perm.vocabulary = v
    /\ perm' = [perm EXCEPT !.flags = @ \cup {name},
                            !.value = BitOr(@, FlagValue(v, name)),
                            !.checked = "none",
                            !.passed = FALSE]
    /\ UNCHANGED <<collVars, clusterVars>>

\* The user's permission value is checked for one capability.
CheckCapability(v, capability) ==
    /\ perm.vocabulary = v
    /\ perm' = [perm EXCEPT !.checked = capability,
                            !.passed = HasCapability(v, perm.value, capability)]
    /\ UNCHANGED <<collVars, clusterVars>>

\* A user with the value NONE in a channel or in a profile.
InitPermission ==
    /\ kind = "Channel"
    /\ docs = <<>>
    /\ indexes = <<>>
    /\ cs = [c \in Callers |-> Idle]
    /\ ret = NoReturn
    /\ reliable = TRUE
    /\ added = {}
    /\ cfg_path = DefaultPath
    /\ file = FileAbsent
    /\ conn = NoConn
    /\ database = NoDatabase
    /\ lastSet = ""
    /\ cret = NoClusterReturn
    /\ perm \in {[NoPermission EXCEPT !.vocabulary = v] : v \in Vocabularies}

NextPermission ==
    \/ \E v \in Vocabularies : \E name \in Capabilities(v) : GrantPermission(v, name)
    \/ \E v \in Vocabularies : \E capability \in Capabilities(v) :
            CheckCapability(v, capability)

SpecPermission == InitPermission /\ [][NextPermission]_vars

(***************************************************************************)
\* The indexes each collection declares, under the names the store gives them.
DeclaredIndexNames(k) ==
    CASE k = "Auth" -> {"userid_1"}
      [] k = "Media" -> {"credits.userid_1_title_1_type_1_tags.value_1"}
      [] k = "Post" -> {"userid_1_title_1_media.context_1",
                        "userid_text_title_text_media.context_text"}
      [] k = "Channel" -> {"userid_1"}
      [] k = "Profile" -> {"userid_1_title_1", "userid_text_title_text"}
      [] k = "Relation" -> {"userid_1"}
      [] k = "Album" -> {"title_1"}

ExistsUser(d, userid) == \E i \in 1..Len(d) : d[i].userid = userid

\* C1: in every reachable state of the Auth collection, under any
\* interleaving of add_user calls, no two stored documents have the same
\* userid.
C1_UniqueUserids ==
    kind = "Auth" =>
        \A i, j \in 1..Len(docs) : i # j => docs[i].userid # docs[j].userid

\* C2: add_user called for a userid that already has a document fails with
\* the duplicate-user error and leaves the documents and the indexes as they
\* were; it goes on to _insert only for a userid that has no document.
C2_DuplicateAddUserFails ==
    [][/\ \A c \in Callers :
            (cs[c].pc = "idle" /\ cs'[c].op = "add_user" /\ cs'[c].pc = "insert_one")
                => ~ExistsUser(docs, cs'[c].doc.userid)
       /\ (ret' # ret /\ ret'.op = "add_user" /\ ret'.res = "DuplicateUser")
            => /\ ExistsUser(docs, ret'.userid)
               /\ docs' = docs
               /\ indexes' = indexes
               /\ cs' = cs]_vars

C2_Witness == ret.op = "add_user" /\ ret.res = "DuplicateUser" /\ ~ret.stored

\* C3: once add_user(u, p) has succeeded, verify_user(u, p) returns true and
\* verify_user(u, q) returns false for every q other than p.
C3_VerifyAfterAdd ==
    [][(ret' # ret /\ ret'.op = "verify_user")
          => \A p \in Passwords :
                <<ret'.userid, p>> \in added
                    => ret'.res = (IF ret'.pw = p THEN "true" ELSE "false")]_vars

C3_Witness ==
    /\ ret.op = "verify_user"
    /\ ret.res = "true"
    /\ <<ret.userid, ret.pw>> \in added
    /\ \E i \in 1..Len(docs) : docs[i].userid # ret.userid

\* C4: verify_user raises only when no document with the userid exists (the
\* user-not-found error); for an existing user it returns true or false, and
\* it never modifies the collection.
C4_VerifyRaisesOnlyNotFound ==
    [][(ret' # ret /\ ret'.op = "verify_user")
          => /\ docs' = docs
             /\ indexes' = indexes
             /\ ret'.res \in {"UserNotFound", "true", "false"}
             /\ ret'.res = "UserNotFound" <=> ~ExistsUser(docs, ret'.userid)]_vars

C4_Witness ==
    ret.op = "verify_user" /\ ret.res = "false" /\ ExistsUser(docs, ret.userid)

\* C5: the password field of every stored Auth document is an output of the
\* password-hash function, never a raw password, also when the caller's
\* document carried a password field.
C5_OnlyHashStored ==
    kind = "Auth" =>
        \A i \in 1..Len(docs) :
            /\ docs[i].password.form = "argon2id"
            /\ \A p \in Passwords : docs[i].password # RawPassword(p)

C5_Witness ==
    \E c \in Callers :
        /\ cs[c].op = "add_user"
        /\ cs[c].carried
        /\ cs[c].doc.id # 0
        /\ docs[cs[c].doc.id].password = crypto_pwhash_str(cs[c].pw)

\* C6: whenever an insert through a collection client returns successfully,
\* every index declared for the collection exists in the store.
C6_IndexesAfterInsert ==
    (ret.op \in {"add", "add_user"} /\ ret.res = "ok")
        => DeclaredIndexNames(kind) \subseteq index_information(indexes)

C6_Witness ==
    /\ kind \in {"Post", "Profile"}
    /\ ret.op = "add"
    /\ ret.res = "ok"
    /\ Len(docs) = 2

\* C7: once every declared index exists under the name the store gives it,
\* a call of _create_indices sends no create-index request: a request is sent
\* only by a call whose index_information() lacked a declared index.
C7_NoRequestOnceProvisioned ==
    [][\A c \in Callers :
          (cs[c].pc = "create_index" /\ cs'[c] # cs[c])
              => ~(DeclaredIndexNames(kind) \subseteq cs[c].info)]_vars

\* C8: N callers running _create_indices concurrently on a fresh collection:
\* no caller receives an error, no index is there twice, and once a call has
\* returned every declared index exists.
C8_ConcurrentEnsure ==
    /\ ret.res \in {"none", "ok"}
    /\ \A i, j \in 1..Len(indexes) : i # j => indexes[i].name # indexes[j].name
    /\ ret.res = "ok" =>
          \A n \in DeclaredIndexNames(kind) :
              Cardinality({i \in 1..Len(indexes) : indexes[i].name = n}) = 1

C8_Witness ==
    /\ kind \in {"Post", "Profile"}
    /\ ret.op = "_create_indices"
    /\ ret.res = "ok"
    /\ \E c, d \in Callers :
          /\ c # d
          /\ cs[c].info = {} /\ cs[c].sent = 1
          /\ cs[d].info = {} /\ cs[d].sent = 1

\* C9: if index creation fails after the document of an insert has been
\* stored, the insert still completes without reporting an error: a call
\* whose document was stored returns successfully.
C9_InsertSurvivesIndexFailure ==
    (ret.op \in {"add", "add_user"} /\ ret.stored) => ret.res = "ok"

\* C10: after any sequence of set_connection calls, a following connect
\* succeeds and opens the cluster with the connection string given to the
\* most recent set_connection.
C10_ConnectAfterSetConnection ==
    (cret.op = "connect" /\ lastSet # "")
        => (cret.res = "ok" /\ conn = MongoClient(lastSet))

\* The config store holds a connection secret.
StoreHasSecret ==
    file.exists /\ file.text.json /\ file.text.value.mdb_connection.present

\* C11: set_connection changes only the "mdb_connection" entry of the
\* persisted config: every other key/value pair of the config file is there
\* with the same value after the call.
C11_SetConnectionKeepsOtherKeys ==
    [][(cret'.op = "set_connection" /\ file.exists /\ file.text.json)
          => /\ file'.exists
             /\ file'.text.json
             /\ file'.text.value.other = file.text.value.other]_vars

\* C12: connect called while no connection secret is stored in the config
\* store fails, and a failed connect does not change the cluster handle.
C12_ConnectUnconfiguredFails ==
    [][(cret'.op = "connect" /\ cret' # cret)
          => /\ ~StoreHasSecret => cret'.res # "ok"
             /\ cret'.res # "ok" => conn' = conn]_vars

\* C13: get_database on a ClusterClient on which connect has not succeeded
\* fails and yields no database handle: no DatabaseClient is built from it.
C13_GetDatabaseNeedsConnect ==
    [][(cret'.op = "get_database" /\ ~conn.open
            /\ (cret' # cret \/ database' # database))
          => /\ cret'.res = "TypeError"
             /\ database' = database
             /\ database' = NoDatabase]_vars

C13_Witness ==
    /\ cret.op = "get_database"
    /\ cret.res = "TypeError"
    /\ lastSet # ""
    /\ database = NoDatabase

C15_UnrecognizedReferenceRejected ==
    kind \in {"Post", "Channel", "Profile", "Relation", "Album"}
        => /\ \A i \in 1..Len(docs) :
                 docs[i].ref = "" \/ docs[i].ref \in DefaultCollectionNames
           /\ \A c \in Callers :
                 cs[c].pc # "idle"
                    => cs[c].doc.ref = "" \/ cs[c].doc.ref \in DefaultCollectionNames

\* C16: media of type VIDEO or SOUND is never silently accepted: encode
\* raises NotImplementedError for every payload, and add_media with a
\* document of type VIDEO or SOUND fails and stores no document.
C16_VideoSoundNeverAccepted ==
    /\ (ret.op = "encode" /\ ret.type \in {"VIDEO", "SOUND"})
          => ret.res = "NotImplementedError"
    /\ (ret.op \in {"add", "add_media_draft"} /\ ret.type \in {"VIDEO", "SOUND"})
          => ret.res # "ok" /\ ~ret.stored
    /\ \A i \in 1..Len(docs) : docs[i].type \notin {"VIDEO", "SOUND"}

\* C17: log_authentication(userid, ip) appends one AuthRecord to the user's
\* history as one atomic step: every call for an existing user returns
\* normally with its record in the history, so that concurrent calls for
\* the same userid leave both records.
C17_LogAuthenticationAppends ==
    (ret.op = "log_authentication" /\ ExistsUser(docs, ret.userid))
        => /\ ret.res = "ok"
           /\ \E i \in 1..Len(docs) :
                 /\ docs[i].userid = ret.userid
                 /\ \E j \in 1..Len(docs[i].authrecs) : docs[i].authrecs[j].ip = ret.ip

====
